---- MODULE Spec2Model ----
(***************************************************************************)
(* State-machine model of maplibre-contour's slope-angle pipeline:         *)
(*   - SlopeAngleSource (src/src/slope-angle-source.ts): protocol-id       *)
(*     registration, timing listeners, the nine-tile fetch orchestrator;   *)
(*   - the worker-side RPC requester (src/src/remote-protocol-handler.ts); *)
(*   - the host-side RPC responder (src/src/protocol-handler.ts).          *)
(*   - SlopeAngleTile (src/src/slope-angle-tile.ts): slope computation,    *)
(*     RGBA encoding and materialization;                                  *)
(*   - v3compat (src/src/slope-angle-source.ts): the two calling           *)
(*     conventions of the registered protocol handler.                     *)
(* Each component has its own specification (SpecOrch, SpecRpc, SpecIds,   *)
(* SpecTile, SpecCompat) over the shared variables; the variables of the   *)
(* other components keep their initial values.                             *)
(***************************************************************************)
EXTENDS Integers, Sequences, FiniteSets, TLC

VARIABLES
  \* ---- SlopeAngleSource.slopeProtocolV4 (one invocation at a time) ----
  timingCallbacks, \* this.timingCallbacks: sequence of listeners, each by behaviour
  pc,              \* position of the invocation
  request,         \* [z, x, y] as parsed from request.url
  issued,          \* slot -> tile coordinates handed to fetchAndParseTile
  status,          \* slot -> state of that fetch promise
  completion,      \* completion record of the try/catch blocks
  timing,          \* the local variable `timing`
  invoked,         \* listener index -> number of calls made by this invocation
  cursor,          \* forEach index inside the finally block
  outcome,         \* what the caller's promise settles to
  \* ---- remote-protocol-handler.ts (requesting context) ----
  id,              \* module variable `id`
  callbacks,       \* own properties of the `callbacks` object: key -> call index
  calls,           \* one record per getData call (its promise)
  toHost,          \* bag of messages posted by self.postMessage, not yet received
  lastEvent,       \* what the last run of the message listener did (history)
  \* ---- protocol-handler.ts (responding context) ----
  lookups,         \* ids of the messages getProtocol was called for (history)
  handling,        \* bag of listener invocations awaiting protocol(...)
  toWorker,        \* bag of replies posted by worker.postMessage, not yet received
  replies,         \* bag of every reply ever posted (history)
  \* ---- SlopeAngleSource constructor ----
  used,            \* module constant `used`: Set<string>
  sources,         \* constructed sources, in construction order
  \* ---- slope-angle-tile.ts: one raster built from one stitched grid ----
  terrain,             \* what the fetched DEM grids hold
  combinedHeightTile,  \* result of HeightTile.combineNeighbors
  slopeAngleTile,      \* the raster returned by SlopeAngleTile.fromHeightTile
  materialized,        \* the raster returned by materialize()
  returned,            \* value returned by the last call on a raster
  \* ---- v3compat: calls of the registered protocol handler ----
  requests             \* one record per call of slopeProtocol

orchVars == <<timingCallbacks, pc, request, issued, status, completion, timing,
              invoked, cursor, outcome>>
rpcVars == <<id, callbacks, calls, toHost, lastEvent, lookups, handling, toWorker,
            replies>>
idVars == <<used, sources>>
tileVars == <<terrain, combinedHeightTile, slopeAngleTile, materialized, returned>>
compatVars == <<requests>>
vars == <<orchVars, rpcVars, idVars, tileVars, compatVars>>

(***************************************************************************)
(* Bounds of the model.                                                    *)
(***************************************************************************)
MaxListeners == 2
MaxCalls == 3
MaxSources == 4

(***************************************************************************)
(* Tile-fetch orchestrator: SlopeAngleSource.slopeProtocolV4               *)
(***************************************************************************)
Slots == 1..9
CenterSlot == 5

\* Column and row offset of each slot of the Promise.allSettled array
\* (nw, n, ne, w, c, e, sw, s, se).
SlotDx(s) == ((s - 1) % 3) - 1
SlotDy(s) == ((s - 1) \div 3) - 1

\* Request urls: one that matches /\/\/(\d+)\/(\d+)\/(\d+)/ and one that does not.
Urls == { [match |-> TRUE, z |-> 1, x |-> 0, y |-> 0],
          [match |-> FALSE, z |-> 0, x |-> 0, y |-> 0] }

\* parseUrl: Number(undefined) is NaN for all three when the regex fails.
parseUrl(url) ==
  IF url.match THEN [nan |-> FALSE, z |-> url.z, x |-> url.x, y |-> url.y]
  ELSE [nan |-> TRUE, z |-> 0, x |-> 0, y |-> 0]

\* x + dx, y + dy in JS numbers: NaN stays NaN.
Offset(t, dx, dy) ==
  IF t.nan THEN t ELSE [t EXCEPT !.x = @ + dx, !.y = @ + dy]

NoTile == [nan |-> TRUE, z |-> 0, x |-> 0, y |-> 0]

ListenerKinds == {"returns", "raises"}

NoCompletion ==
  [kind |-> "none", bytes |-> FALSE, present |-> {}, cacheControl |-> "",
   expiresIn |-> 0, error |-> ""]

\* HeightTile.fromRawDem over the settled results: the slots that hold a grid.
HeightTiles(st) == {s \in Slots : st[s] = "fulfilled"}

\* HeightTile.combineNeighbors: undefined when the centre grid is missing.
CombineNeighbors(tiles) ==
  IF CenterSlot \in tiles THEN [defined |-> TRUE, grids |-> tiles]
  ELSE [defined |-> FALSE, grids |-> {}]

\* A join that gives up as soon as the centre fetch has failed.
AllSettledOrCenterRejected(st) ==
  (\A s \in Slots : st[s] # "pending") \/ st[CenterSlot] = "rejected"

\* The promise returned by Promise.allSettled resolves once no input is pending.
AllSettled(st) == \A s \in Slots : st[s] # "pending"

\* Lines 155-190: the body of try after the await, and the catch block.
TryCatch(st) ==
  LET combined == CombineNeighbors(HeightTiles(st)) IN
  IF ~combined.defined
  THEN [NoCompletion EXCEPT !.kind = "throw",
          !.error = "Center tile is required but was not available"]
  ELSE [NoCompletion EXCEPT !.kind = "return", !.bytes = TRUE,
          !.present = combined.grids,
          !.cacheControl = "public, max-age=3600",
          !.expiresIn = 3600 * 1000]

\* onTiming(callback)
OnTiming(kind) ==
  /\ pc # "finally"
  /\ Len(timingCallbacks) < MaxListeners
  /\ timingCallbacks' = Append(timingCallbacks, kind)
  /\ UNCHANGED <<pc, request, issued, status, completion, timing, invoked,
                 cursor, outcome>>
  /\ UNCHANGED <<rpcVars, idVars, tileVars, compatVars>>

\* Lines 134-153: the call up to the await of Promise.allSettled.
Start(url) ==
  /\ pc \in {"idle", "done"}
  /\ request' = parseUrl(url)
  /\ issued' = [s \in Slots |-> Offset(request', SlotDx(s), SlotDy(s))]
  /\ status' = [s \in Slots |-> "pending"]
  /\ completion' = NoCompletion
  /\ timing' = "unset"
  /\ invoked' = <<>>
  /\ cursor' = 0
  /\ outcome' = NoCompletion
  /\ pc' = "awaiting"
  /\ UNCHANGED timingCallbacks
  /\ UNCHANGED <<rpcVars, idVars, tileVars, compatVars>>

\* One fetchAndParseTile promise settles.
FetchSettle(s, result) ==
  /\ pc = "awaiting"
  /\ status[s] = "pending"
  /\ status' = [status EXCEPT ![s] = result]
  /\ UNCHANGED <<timingCallbacks, pc, request, issued, completion, timing,
                 invoked, cursor, outcome>>
  /\ UNCHANGED <<rpcVars, idVars, tileVars, compatVars>>

\* Lines 155-190: the continuation after the await, up to the finally block.
Join ==
  /\ pc = "awaiting"
  /\ AllSettled(status)
  /\ completion' = TryCatch(status)
  /\ timing' = IF completion'.kind = "return" THEN "finish" ELSE "error"
  /\ invoked' = [k \in 1..Len(timingCallbacks) |-> 0]
  /\ cursor' = 1
  /\ pc' = "finally"
  /\ UNCHANGED <<timingCallbacks, request, issued, status, outcome>>
  /\ UNCHANGED <<rpcVars, idVars, tileVars, compatVars>>

\* Line 192: one iteration of timingCallbacks.forEach((cb) => cb(timing)).
\* An exception thrown by cb leaves forEach and the finally block abruptly,
\* and so becomes the completion of the whole function.
NotifyListener ==
  /\ pc = "finally"
  /\ cursor <= Len(timingCallbacks)
  /\ invoked' = [invoked EXCEPT ![cursor] = @ + 1]
  /\ IF timingCallbacks[cursor] = "raises"
     THEN /\ outcome' = [NoCompletion EXCEPT !.kind = "throw",
                           !.error = "timing callback error"]
          /\ pc' = "done"
          /\ UNCHANGED cursor
     ELSE /\ cursor' = cursor + 1
          /\ UNCHANGED <<outcome, pc>>
  /\ UNCHANGED <<timingCallbacks, request, issued, status, completion, timing>>
  /\ UNCHANGED <<rpcVars, idVars, tileVars, compatVars>>

\* The finally block completes normally: the try/catch completion stands.
FinallyDone ==
  /\ pc = "finally"
  /\ cursor > Len(timingCallbacks)
  /\ outcome' = completion
  /\ pc' = "done"
  /\ UNCHANGED <<timingCallbacks, request, issued, status, completion, timing,
                 invoked, cursor>>
  /\ UNCHANGED <<rpcVars, idVars, tileVars, compatVars>>

(***************************************************************************)
(* Strings are sequences of tokens; a number used as a property key or in  *)
(* a template literal is converted to its decimal digits.                  *)
(***************************************************************************)
DigitChars == <<"0", "1", "2", "3", "4", "5", "6", "7", "8", "9">>

RECURSIVE NumberToString(_)
NumberToString(n) ==
  IF n < 10 THEN <<DigitChars[n + 1]>>
  ELSE NumberToString(n \div 10) \o <<DigitChars[(n % 10) + 1]>>

\* String.prototype.startsWith for a one-token prefix.
StartsWith(str, prefix) == Len(str) >= 1 /\ str[1] = prefix

(***************************************************************************)
(* RPC bridge, requesting side: remote-protocol-handler.ts                 *)
(***************************************************************************)
idPrefix == "maplibre-contours-get-data-"

\* The urls getData is called with: the trusted scheme, two urls the host has
\* a protocol for, and one it has none for.
DataUrls == { <<"https://", "t">>, <<"custom://", "a">>, <<"custom://", "b">>,
              <<"other://", "c">> }

NoPayload == [url |-> <<>>, data |-> <<>>, cacheControl |-> ""]

\* A message event: data is null, or an object {id, payload}; typ is typeof id
\* and key is the property key the id converts to.
NullMessage == [hasData |-> FALSE, typ |-> "undefined", key |-> <<>>,
                payload |-> NoPayload]
Message(typ, key, payload) ==
  [hasData |-> TRUE, typ |-> typ, key |-> key, payload |-> payload]

\* Messages in flight and messages posted are bags: message -> copies.
EmptyBag == [m \in {} |-> 0]
BagAdd(bag, m) ==
  [x \in DOMAIN bag \cup {m} |->
     IF x # m THEN bag[x] ELSE IF m \in DOMAIN bag THEN bag[m] + 1 ELSE 1]
BagRemove(bag, m) ==
  IF bag[m] > 1 THEN [bag EXCEPT ![m] = @ - 1]
  ELSE [x \in DOMAIN bag \ {m} |-> bag[x]]
RECURSIVE BagAddAll(_, _)
BagAddAll(bag, msgs) ==
  IF msgs = <<>> THEN bag ELSE BagAddAll(BagAdd(bag, Head(msgs)), Tail(msgs))

\* `${prefix}${id++}`: the value of the template literal.
EventId(n) == <<idPrefix>> \o NumberToString(n)

\* A counter that is read but never advanced.
NextIdStuck(n) == n

\* id++: the value stored back.
NextId(n) == n + 1

\* A lookup that answers the oldest pending request, whatever the id.
LookupOldest(cbs, key) ==
  IF DOMAIN cbs # {}
  THEN LET oldest == CHOOSE k \in DOMAIN cbs : \A j \in DOMAIN cbs : cbs[k] <= cbs[j]
       IN [kind |-> "resolver", call |-> cbs[oldest]]
  ELSE [kind |-> "undefined", call |-> 0]

\* callbacks[key]: an own property (a resolver), else what Object.prototype
\* supplies to an object literal: its __proto__ accessor yields Object.prototype
\* itself (an object, not callable); any other key modelled here is undefined.
Lookup(cbs, key) ==
  IF key \in DOMAIN cbs THEN [kind |-> "resolver", call |-> cbs[key]]
  ELSE IF key = <<"__proto__">> THEN [kind |-> "object", call |-> 0]
  ELSE [kind |-> "undefined", call |-> 0]

\* delete callbacks[key]: removes an own property, a no-op otherwise.
Delete(cbs, key) == [k \in DOMAIN cbs \ {key} |-> cbs[k]]

\* A getData that never stores its resolver.
StoreNothing(cbs, key, call) == cbs

\* callbacks[key] = resolve
Store(cbs, key, call) ==
  [k \in DOMAIN cbs \cup {key} |-> IF k = key THEN call ELSE cbs[k]]

\* resolve(payload) on the promise of call i: settles it if still pending.
Resolve(cs, i, payload) ==
  [cs EXCEPT ![i] =
     [@ EXCEPT !.resolverCalls = @ + 1,
               !.state = IF cs[i].state = "pending" THEN "resolved" ELSE @,
               !.value = IF cs[i].state = "pending" THEN payload ELSE @]]

\* What the last run of the requesting side's listener did besides changing
\* the state: whether it threw, and whether its message carried the id of a
\* request answered before.
NoEvent == [raised |-> FALSE, duplicate |-> FALSE]

\* History: msg carries the id of a request whose resolver was called already.
IsDuplicate(msg) ==
  \E i \in DOMAIN calls :
     calls[i].path = "delegated" /\ calls[i].key = msg.key
       /\ calls[i].resolverCalls >= 1

\* Lines 9-12: the "message" listener of the requesting context.
\*   ({ data: { id, payload } }) => { callbacks[id]?.(payload); delete callbacks[id] }
\* Destructuring null data throws; calling a non-callable object throws, and
\* the delete statement is then not reached.
Listener(msg) ==
  LET found == Lookup(callbacks, msg.key) IN
  /\ IF ~msg.hasData
     THEN /\ lastEvent' = [NoEvent EXCEPT !.raised = TRUE]
          /\ UNCHANGED <<callbacks, calls>>
     ELSE CASE found.kind = "resolver" ->
                 /\ calls' = Resolve(calls, found.call, msg.payload)
                 /\ callbacks' = Delete(callbacks, msg.key)
                 /\ lastEvent' = NoEvent
            [] found.kind = "object" ->
                 /\ lastEvent' = [NoEvent EXCEPT !.raised = TRUE]
                 /\ UNCHANGED <<callbacks, calls>>
            [] found.kind = "undefined" ->
                 /\ callbacks' = Delete(callbacks, msg.key)
                 /\ lastEvent' = [NoEvent EXCEPT !.duplicate = IsDuplicate(msg)]
                 /\ UNCHANGED calls
  /\ UNCHANGED <<id, toHost, lookups, handling, replies>>

NewCall(path, url, key) ==
  [path |-> path, url |-> url, key |-> key, state |-> "pending",
   value |-> NoPayload, resolverCalls |-> 0]

\* A getData that draws its event id before it tests the scheme.
GetDataDirectCounting(url) ==
  /\ Len(calls) < MaxCalls
  /\ StartsWith(url, "https://")
  /\ id' = NextId(id)
  /\ calls' = Append(calls, NewCall("direct", url, <<>>))
  /\ lastEvent' = NoEvent
  /\ UNCHANGED <<callbacks, toHost, lookups, handling, toWorker, replies>>
  /\ UNCHANGED <<orchVars, idVars, tileVars, compatVars>>

\* Lines 18-32: getData on the direct path issues fetch(url) and returns.
GetDataDirect(url) ==
  /\ Len(calls) < MaxCalls
  /\ StartsWith(url, "https://")
  /\ calls' = Append(calls, NewCall("direct", url, <<>>))
  /\ lastEvent' = NoEvent
  /\ UNCHANGED <<id, callbacks, toHost, lookups, handling, toWorker, replies>>
  /\ UNCHANGED <<orchVars, idVars, tileVars, compatVars>>

\* Lines 21-31: the fetch of a direct call settles; a response that is not ok
\* and a network error both reject the promise.
DirectSettle(i, result) ==
  /\ i \in 1..Len(calls)
  /\ calls[i].path = "direct"
  /\ calls[i].state = "pending"
  /\ calls' = [calls EXCEPT ![i] =
       IF result = "ok"
       THEN [@ EXCEPT !.state = "resolved",
                      !.value = [NoPayload EXCEPT !.data = <<"blob">> \o calls[i].url]]
       ELSE [@ EXCEPT !.state = "rejected"]]
  /\ lastEvent' = NoEvent
  /\ UNCHANGED <<id, callbacks, toHost, lookups, handling, toWorker, replies>>
  /\ UNCHANGED <<orchVars, idVars, tileVars, compatVars>>

\* Lines 34-45: getData on the delegated path.
GetDataDelegated(url) ==
  /\ Len(calls) < MaxCalls
  /\ ~StartsWith(url, "https://")
  /\ LET eventId == EventId(id) IN
       /\ id' = NextId(id)
       /\ toHost' = BagAdd(toHost,
            Message("string", eventId, [NoPayload EXCEPT !.url = url]))
       /\ calls' = Append(calls, NewCall("delegated", url, eventId))
       /\ callbacks' = Store(callbacks, eventId, Len(calls) + 1)
  /\ lastEvent' = NoEvent
  /\ UNCHANGED <<lookups, handling, toWorker, replies>>
  /\ UNCHANGED <<orchVars, idVars, tileVars, compatVars>>

\* Messages that reach the requesting context from elsewhere than the
\* responder: null data, a numeric id, a string id outside the namespace, and
\* an id naming a property of Object.prototype.
OtherWorkerMessages ==
  { NullMessage,
    Message("number", NumberToString(7), NoPayload),
    Message("string", <<"other-", "0">>, NoPayload),
    Message("string", <<"__proto__">>, NoPayload) }

\* The listener runs on a reply posted by the responder.
WorkerReceive(msg) ==
  /\ msg \in DOMAIN toWorker
  /\ toWorker' = BagRemove(toWorker, msg)
  /\ Listener(msg)
  /\ UNCHANGED <<orchVars, idVars, tileVars, compatVars>>

\* The listener runs again on a reply it has already received.
WorkerReceiveDuplicate(msg) ==
  /\ msg \in DOMAIN replies
  /\ msg \notin DOMAIN toWorker
  /\ Listener(msg)
  /\ UNCHANGED toWorker
  /\ UNCHANGED <<orchVars, idVars, tileVars, compatVars>>

\* The listener runs on a message that is no reply.
WorkerReceiveOther(msg) ==
  /\ Listener(msg)
  /\ UNCHANGED toWorker
  /\ UNCHANGED <<orchVars, idVars, tileVars, compatVars>>

(***************************************************************************)
(* RPC bridge, responding side: protocol-handler.ts                        *)
(***************************************************************************)
\* getProtocol(url): the schemes a protocol is registered for.
RegisteredSchemes == {"custom://"}

\* A registry that has a fallback protocol for every url.
GetProtocolWithFallback(url) == TRUE

GetProtocol(url) == \E scheme \in RegisteredSchemes : StartsWith(url, scheme)

\* A guard that forgets the namespace test.
AcceptsAnyString(msg) == msg.hasData /\ msg.typ = "string"

\* Line 6: the guard of the responder's listener.
Accepts(msg) ==
  msg.hasData /\ msg.typ = "string" /\ StartsWith(msg.key, idPrefix)

\* What the protocol registered for a url resolves to.
ProtocolResult(url) ==
  [url |-> <<>>, data |-> <<"bytes">> \o url, cacheControl |-> "protocol"]

\* new Blob([data])
Blob(data) == <<"blob">> \o data

\* Lines 15-22: the reply posted for a request id and a protocol result.
Reply(key, result) ==
  Message("string", key, [result EXCEPT !.data = Blob(result.data)])

\* Lines 16-22: the messages worker.postMessage sends for one result.
Posted(key, result) == <<Reply(key, result)>>

\* Messages that reach the responder from elsewhere than getData.
OtherHostMessages ==
  { NullMessage,
    Message("number", NumberToString(7),
            [NoPayload EXCEPT !.url = <<"custom://", "a">>]),
    Message("string", <<"other-", "0">>,
            [NoPayload EXCEPT !.url = <<"custom://", "a">>]) }

\* Lines 5-13: the responder's listener up to the await of protocol(...).
\* A message that fails the guard returns at once; a url without a protocol
\* throws after the lookup, and nothing is posted.
Respond(msg) ==
  /\ IF ~Accepts(msg)
     THEN UNCHANGED <<lookups, handling>>
     ELSE IF ~GetProtocol(msg.payload.url)
     THEN /\ lookups' = lookups \cup {msg.key}
          /\ UNCHANGED handling
     ELSE /\ lookups' = lookups \cup {msg.key}
          /\ handling' = BagAdd(handling, [key |-> msg.key, url |-> msg.payload.url])
  /\ lastEvent' = NoEvent
  /\ UNCHANGED <<id, callbacks, calls, toWorker, replies>>

HostReceive(msg) ==
  /\ msg \in DOMAIN toHost
  /\ toHost' = BagRemove(toHost, msg)
  /\ Respond(msg)
  /\ UNCHANGED <<orchVars, idVars, tileVars, compatVars>>

HostReceiveOther(msg) ==
  /\ Respond(msg)
  /\ UNCHANGED toHost
  /\ UNCHANGED <<orchVars, idVars, tileVars, compatVars>>

\* Lines 13-22: protocol(...) settles; a result is posted back, a rejection
\* ends the listener without a reply.
HostSettle(h, result) ==
  /\ h \in DOMAIN handling
  /\ handling' = BagRemove(handling, h)
  /\ IF result = "fulfilled"
     THEN LET posted == Posted(h.key, ProtocolResult(h.url)) IN
          /\ replies' = BagAddAll(replies, posted)
          /\ toWorker' = BagAddAll(toWorker, posted)
     ELSE UNCHANGED <<replies, toWorker>>
  /\ lastEvent' = NoEvent
  /\ UNCHANGED <<id, callbacks, calls, toHost, lookups>>
  /\ UNCHANGED <<orchVars, idVars, tileVars, compatVars>>

(***************************************************************************)
(* Protocol-id registration: the SlopeAngleSource constructor              *)
(***************************************************************************)
\* Base ids passed as `id`: strings as sequences of characters.
BaseIds == { <<"a">>, <<"a", "1">>, <<"b">> }

\* Lines 96-99: the while loop, entered with the first candidate taken.
RECURSIVE Suffixed(_, _, _)
Suffixed(base, i, usedIds) ==
  LET protocolPrefix == base \o NumberToString(i) IN
  IF protocolPrefix \in usedIds THEN Suffixed(base, i + 1, usedIds)
  ELSE protocolPrefix

\* A dedup that tries the suffix 1 only.
ProtocolPrefixOneSuffix(base, usedIds) ==
  IF base \in usedIds THEN base \o NumberToString(1) ELSE base

\* Lines 95-99: the value of protocolPrefix after the loop.
ProtocolPrefix(base, usedIds) ==
  IF base \in usedIds THEN Suffixed(base, 1, usedIds) ELSE base

\* Lines 86-104: new SlopeAngleSource({demManager, id}).
Construct(base) ==
  /\ Len(sources) < MaxSources
  /\ LET protocolPrefix == ProtocolPrefix(base, used) IN
       /\ used' = used \cup {protocolPrefix}
       /\ sources' = Append(sources,
            [base |-> base, prefix |-> protocolPrefix,
             slopeProtocolId |-> protocolPrefix \o <<"-slope">>])
  /\ UNCHANGED <<orchVars, rpcVars, tileVars, compatVars>>

(***************************************************************************)
(* Slope raster: SlopeAngleTile (slope-angle-tile.ts) over the stitched    *)
(* elevation grid built by slopeProtocolV4.                                *)
(***************************************************************************)
\* Width and height of every DEM grid, and the number of the nine grids that
\* may be absent.
TileSize == 3
MaxMissing == 1

\* JS values returned by a raster. A finite number is held as its value in
\* 1/10000 degree (tenk, rounded) and the low 29 bits of its binary64
\* significand (low): the bits a binary32 cannot hold.
NaN == [kind |-> "NaN", tenk |-> 0, low |-> 0]
Undefined == [kind |-> "undefined", tenk |-> 0, low |-> 0]
Num(tenk, low) == [kind |-> "number", tenk |-> tenk, low |-> low]

\* isNaN(v): Number(undefined) is NaN.
IsNaN(v) == v.kind # "number"

\* An elevation: a finite number of metres, or the NaN no-data value.
NoData == [nan |-> TRUE, m |-> 0]
Elev(m) == [nan |-> FALSE, m |-> m]

\* What the nine fetched grids hold: an elevation field over the pixel
\* coordinates of the 3x3 block, and at most one no-data pixel in the centre
\* grid.
Fields == {"flat", "rampX", "rampY", "bowl"}
NoHole == <<>>
Holes == {NoHole, <<0, 0>>, <<1, 1>>}

Elevation(field, gx, gy) ==
  CASE field = "flat" -> 100
    [] field = "rampX" -> 30 * gx
    [] field = "rampY" -> 15 * gy
    [] field = "bowl" -> 15 * gx * gx + 15 * gy

\* HeightTile.fromRawDem(result.value).get(x, y) for the grid of one slot.
GridGet(t, slot, x, y) ==
  IF slot = CenterSlot /\ t.hole = <<x, y>> THEN NoData
  ELSE Elev(Elevation(t.field, (SlotDx(slot) + 1) * TileSize + x,
                               (SlotDy(slot) + 1) * TileSize + y))

\* get(x, y) of the grid returned by HeightTile.combineNeighbors: the centre
\* grid in bounds, the neighbour of the matching compass direction on the
\* one-pixel ring (NaN when it is absent), NaN beyond the ring.
CombinedGet(tile, t, x, y) ==
  LET dx == IF x < 0 THEN -1 ELSE IF x >= TileSize THEN 1 ELSE 0
      dy == IF y < 0 THEN -1 ELSE IF y >= TileSize THEN 1 ELSE 0
      slot == (dy + 1) * 3 + (dx + 1) + 1
  IN IF x < -1 \/ x > TileSize \/ y < -1 \/ y > TileSize THEN NoData
     ELSE IF slot \notin tile.grids THEN NoData
     ELSE GridGet(t, slot, x - dx * TileSize, y - dy * TileSize)

\* Lines 60-67 in binary64 for pixelSize 30, by the two numerators:
\*   (Math.atan(Math.sqrt(dzdx * dzdx + dzdy * dzdy)) * 180) / Math.PI
\* with dzdx = nx / 240 and dzdy = ny / 240.
SlopeTable ==
  { [nx |-> 0, ny |-> 0, tenk |-> 0, low |-> 0],
    [nx |-> 240, ny |-> 0, tenk |-> 450000, low |-> 0],
    [nx |-> 0, ny |-> 120, tenk |-> 265651, low |-> 296099268],
    [nx |-> 720, ny |-> 120, tenk |-> 717992, low |-> 510353295],
    [nx |-> 960, ny |-> 120, tenk |-> 760679, low |-> 481280961],
    [nx |-> 1200, ny |-> 120, tenk |-> 787448, low |-> 116909286],
    [nx |-> 1440, ny |-> 120, tenk |-> 805698, low |-> 284923469],
    [nx |-> 1680, ny |-> 120, tenk |-> 818903, low |-> 127525979] }

PixelSizes == {30, 0}

\* Lines 60-67. With pixelSize 0 the divisor 8 * pixelSize is 0: a numerator
\* of 0 gives 0 / 0 = NaN, which every later operation keeps; two non-zero
\* numerators give infinite gradients and atan(Infinity), 90 degrees.
SlopeDegrees(nx, ny, pixelSize) ==
  IF pixelSize = 0
  THEN IF nx = 0 \/ ny = 0 THEN NaN ELSE Num(900000, 0)
  ELSE LET row == CHOOSE r \in SlopeTable : r.nx = nx /\ r.ny = ny
       IN Num(row.tenk, row.low)

\* Lines 41-69: Horn's estimate from the eight surrounding elevations.
Horn(tile, t, pixelSize, x, y) ==
  LET z1 == CombinedGet(tile, t, x - 1, y - 1)
      z2 == CombinedGet(tile, t, x, y - 1)
      z3 == CombinedGet(tile, t, x + 1, y - 1)
      z4 == CombinedGet(tile, t, x - 1, y)
      z6 == CombinedGet(tile, t, x + 1, y)
      z7 == CombinedGet(tile, t, x - 1, y + 1)
      z8 == CombinedGet(tile, t, x, y + 1)
      z9 == CombinedGet(tile, t, x + 1, y + 1)
  IN IF \E v \in {z1, z2, z3, z4, z6, z7, z8, z9} : v.nan THEN NaN
     ELSE SlopeDegrees((z3.m + 2 * z6.m + z9.m) - (z1.m + 2 * z4.m + z7.m),
                       (z7.m + 2 * z8.m + z9.m) - (z1.m + 2 * z2.m + z3.m),
                       pixelSize)

\* A raster that gives no slope when the pixel itself has no elevation.
SlopeGetWithCenter(tile, t, pixelSize, x, y) ==
  IF x < 0 \/ x >= TileSize \/ y < 0 \/ y >= TileSize THEN NaN
  ELSE IF CombinedGet(tile, t, x, y).nan THEN NaN
  ELSE Horn(tile, t, pixelSize, x, y)

\* A raster that also skips the outermost pixels of the tile.
SlopeGetSkipBorder(tile, t, pixelSize, x, y) ==
  IF x <= 0 \/ x >= TileSize - 1 \/ y <= 0 \/ y >= TileSize - 1 THEN NaN
  ELSE Horn(tile, t, pixelSize, x, y)

\* Lines 34-70: the get(x, y) of the raster returned by fromHeightTile.
SlopeGet(tile, t, pixelSize, x, y) ==
  IF x < 0 \/ x >= TileSize \/ y < 0 \/ y >= TileSize THEN NaN
  ELSE Horn(tile, t, pixelSize, x, y)

\* The get of a raster: the closure of fromHeightTile over its grid.
LazyGet(x, y) ==
  SlopeGet(combinedHeightTile, terrain, slopeAngleTile.pixelSize, x, y)

\* The values of maxAngle a request can carry: parseFloat of the query
\* parameter, degrees when a finite number.
NumberArg(deg) == [kind |-> "number", deg |-> deg]
NaNArg == [kind |-> "NaN", deg |-> 0]
InfinityArg == [kind |-> "Infinity", deg |-> 0]
MaxAngles == { NumberArg(45), NumberArg(30), NumberArg(0), NumberArg(-45),
               NaNArg, InfinityArg }

\* Math.round(num / den) for den > 0: the nearest integer, halves upward.
Round(num, den) == (2 * num + den) \div (2 * den)

\* Storing an integer into a Uint8Array element: modulo 2^8.
ToUint8(n) == n % 256

\* Lines 86-93: pixelValue as stored in the buffer. NaN and infinite values
\* are stored as 0.
\*   Math.round(Math.min(angle / maxAngle, 1) * 255)
PixelValue(angle, maxAngle) ==
  IF IsNaN(angle) THEN 0
  ELSE CASE maxAngle.kind = "NaN" -> 0
         [] maxAngle.kind = "Infinity" -> 0
         [] maxAngle.kind = "number" /\ maxAngle.deg = 0 ->
              IF angle.tenk > 0 THEN 255 ELSE 0
         [] maxAngle.kind = "number" /\ maxAngle.deg > 0 ->
              IF angle.tenk >= maxAngle.deg * 10000 THEN 255
              ELSE ToUint8(Round(255 * angle.tenk, maxAngle.deg * 10000))
         [] maxAngle.kind = "number" /\ maxAngle.deg < 0 ->
              IF -angle.tenk >= -maxAngle.deg * 10000 THEN 255
              ELSE ToUint8(Round(-255 * angle.tenk, -maxAngle.deg * 10000))

\* Line 96: the alpha byte.
Alpha(angle) == IF IsNaN(angle) THEN 0 ELSE 255

\* Lines 79-100: the buffer, pixel by pixel in the order of the two loops.
RECURSIVE Encode(_, _)
Encode(idx, maxAngle) ==
  IF idx >= TileSize * TileSize THEN <<>>
  ELSE LET angle == LazyGet(idx % TileSize, idx \div TileSize)
           pixelValue == PixelValue(angle, maxAngle)
       IN <<pixelValue, pixelValue, pixelValue, Alpha(angle)>>
            \o Encode(idx + 1, maxAngle)

\* Line 111: storing a value into a Float32Array element rounds it to the
\* nearest binary32, which has none of the low 29 significand bits.
Float32Store(v) == IF v.kind = "number" THEN [v EXCEPT !.low = 0] ELSE NaN

\* Lines 107-113: the contents of data after the loops.
MaterializedData ==
  [i \in 1..(TileSize * TileSize) |->
     Float32Store(LazyGet((i - 1) % TileSize, (i - 1) \div TileSize))]

\* A dense raster that reads its array column by column.
DenseGetTransposed(data, width, x, y) ==
  LET idx == x * width + y
  IN IF idx >= 0 /\ idx < Len(data) THEN data[idx + 1] ELSE Undefined

\* Line 117: (x, y) => data[y * this.width + x]; an index outside the array
\* reads undefined.
DenseGet(data, width, x, y) ==
  LET idx == y * width + x
  IN IF idx >= 0 /\ idx < Len(data) THEN data[idx + 1] ELSE Undefined

NoTerrain == [field |-> "flat", hole |-> NoHole]
NoRaster == [kind |-> "none", width |-> 0, height |-> 0, pixelSize |-> 0,
             data |-> <<>>]
NoReturn == [op |-> "none", x |-> 0, y |-> 0, maxAngle |-> NaNArg,
             value |-> NaN, buffer |-> <<>>]

\* The sets of slots that hold a grid: at most MaxMissing fetches failed.
PresentSets ==
  {Slots \ missing : missing \in {m \in SUBSET Slots : Cardinality(m) <= MaxMissing}}

\* Coordinates a raster is queried at: the tile and the ring around it.
Coords == (-1)..TileSize

\* Lines 155-168 of slope-angle-source.ts: the grids of the fulfilled fetches
\* are combined; without the centre grid there is no raster.
BuildHeightTile(present, field, hole) ==
  /\ ~combinedHeightTile.defined
  /\ returned.op = "none"
  /\ terrain' = [field |-> field, hole |-> hole]
  /\ combinedHeightTile' = CombineNeighbors(present)
  /\ returned' = IF combinedHeightTile'.defined THEN returned
                 ELSE [NoReturn EXCEPT !.op = "throw"]
  /\ UNCHANGED <<slopeAngleTile, materialized>>
  /\ UNCHANGED <<orchVars, rpcVars, idVars, compatVars>>

\* Lines 30-71: SlopeAngleTile.fromHeightTile(heightTile, pixelSize).
FromHeightTile(pixelSize) ==
  /\ combinedHeightTile.defined
  /\ slopeAngleTile.kind = "none"
  /\ slopeAngleTile' = [NoRaster EXCEPT !.kind = "lazy", !.width = TileSize,
                          !.height = TileSize, !.pixelSize = pixelSize]
  /\ UNCHANGED <<terrain, combinedHeightTile, materialized, returned>>
  /\ UNCHANGED <<orchVars, rpcVars, idVars, compatVars>>

\* A call of get(x, y) on the raster of fromHeightTile. Rasters are immutable
\* and their methods pure: a behaviour follows one call and its return value.
Get(x, y) ==
  /\ slopeAngleTile.kind = "lazy"
  /\ returned.op = "none"
  /\ returned' = [NoReturn EXCEPT !.op = "get", !.x = x, !.y = y,
                    !.value = LazyGet(x, y)]
  /\ UNCHANGED <<terrain, combinedHeightTile, slopeAngleTile, materialized>>
  /\ UNCHANGED <<orchVars, rpcVars, idVars, compatVars>>

\* Lines 78-101: toImageBuffer(maxAngle) on the raster of fromHeightTile.
ToImageBuffer(maxAngle) ==
  /\ slopeAngleTile.kind = "lazy"
  /\ returned.op = "none"
  /\ returned' = [NoReturn EXCEPT !.op = "toImageBuffer", !.maxAngle = maxAngle,
                    !.buffer = Encode(0, maxAngle)]
  /\ UNCHANGED <<terrain, combinedHeightTile, slopeAngleTile, materialized>>
  /\ UNCHANGED <<orchVars, rpcVars, idVars, compatVars>>

\* Lines 106-119: materialize() on the raster of fromHeightTile.
Materialize ==
  /\ slopeAngleTile.kind = "lazy"
  /\ materialized.kind = "none"
  /\ materialized' = [NoRaster EXCEPT !.kind = "dense",
                        !.width = slopeAngleTile.width,
                        !.height = slopeAngleTile.height,
                        !.data = MaterializedData]
  /\ UNCHANGED <<terrain, combinedHeightTile, slopeAngleTile, returned>>
  /\ UNCHANGED <<orchVars, rpcVars, idVars, compatVars>>

\* A call of get(x, y) on the raster of materialize().
GetMaterialized(x, y) ==
  /\ materialized.kind = "dense"
  /\ returned.op = "none"
  /\ returned' = [NoReturn EXCEPT !.op = "getMaterialized", !.x = x, !.y = y,
                    !.value = DenseGet(materialized.data, materialized.width, x, y)]
  /\ UNCHANGED <<terrain, combinedHeightTile, slopeAngleTile, materialized>>
  /\ UNCHANGED <<orchVars, rpcVars, idVars, compatVars>>

(***************************************************************************)
(* Host protocol adapter: v3compat (slope-angle-source.ts)                 *)
(***************************************************************************)
MaxRequests == 2

\* How a legacy response callback behaves when it is called.
CallbackKinds == {"returns", "raisesOnData", "raisesAlways"}

\* The arguments of one call of the response callback.
DataArgs == [error |-> "undefined", data |-> TRUE,
             cacheControl |-> "public, max-age=3600", expires |-> TRUE]
ErrorArgs(err) == [error |-> err, data |-> FALSE, cacheControl |-> "undefined",
                   expires |-> FALSE]

\* TRUE when a callback of this kind throws on these arguments.
Raises(kind, args) ==
  \/ kind = "raisesAlways"
  \/ kind = "raisesOnData" /\ args.data

\* One call of the handler: the v4 promise, the promise of .then(...), the
\* promise of .catch(...), the calls of arg2 made so far and the state of the
\* AbortController.
NewRequest(convention, kind) ==
  [convention |-> convention, callback |-> kind, v4 |-> "pending",
   then |-> "pending", catch |-> "pending", calls |-> <<>>, aborted |-> FALSE]

\* Lines 48-49: arg2 is an AbortController; the v4 promise is returned as is.
CallV4 ==
  /\ Len(requests) < MaxRequests
  /\ requests' = Append(requests,
       [NewRequest("v4", "returns") EXCEPT !.then = "none", !.catch = "none"])
  /\ UNCHANGED <<orchVars, rpcVars, idVars, tileVars>>

\* Lines 51-64: arg2 is a callback; v4 is started with a new AbortController
\* and { cancel } is returned.
CallV3(kind) ==
  /\ Len(requests) < MaxRequests
  /\ requests' = Append(requests, NewRequest("v3", kind))
  /\ UNCHANGED <<orchVars, rpcVars, idVars, tileVars>>

\* The promise returned by v4 settles.
V4Settle(r, result) ==
  /\ r \in DOMAIN requests
  /\ requests[r].v4 = "pending"
  /\ requests' = [requests EXCEPT ![r].v4 = result]
  /\ UNCHANGED <<orchVars, rpcVars, idVars, tileVars>>

\* Lines 54-61: the arguments the handlers of .then(...) call arg2 with.
ThenArgs(req) ==
  IF req.v4 = "fulfilled" THEN <<DataArgs>> ELSE <<ErrorArgs("request")>>

\* Lines 53-62: the reaction of .then(onFulfilled, onRejected) runs; an
\* exception of arg2 rejects the promise .then(...) returned.
ThenReaction(r) ==
  /\ r \in DOMAIN requests
  /\ requests[r].convention = "v3"
  /\ requests[r].v4 # "pending"
  /\ requests[r].then = "pending"
  /\ LET args == ThenArgs(requests[r])
         raised == \E i \in DOMAIN args : Raises(requests[r].callback, args[i])
     IN requests' = [requests EXCEPT
          ![r].calls = @ \o args,
          ![r].then = IF raised THEN "rejected" ELSE "fulfilled"]
  /\ UNCHANGED <<orchVars, rpcVars, idVars, tileVars>>

\* Line 63: the reaction of .catch(...) runs: on a rejection arg2 is called
\* with the exception, and its own exception is left unhandled.
CatchReaction(r) ==
  /\ r \in DOMAIN requests
  /\ requests[r].then \in {"fulfilled", "rejected"}
  /\ requests[r].catch = "pending"
  /\ requests' = [requests EXCEPT
       ![r].calls = IF requests[r].then = "rejected"
                    THEN Append(@, ErrorArgs("callback")) ELSE @,
       ![r].catch = IF requests[r].then = "rejected"
                       /\ Raises(requests[r].callback, ErrorArgs("callback"))
                    THEN "rejected" ELSE "fulfilled"]
  /\ UNCHANGED <<orchVars, rpcVars, idVars, tileVars>>

\* Line 64: cancel() aborts the controller handed to v4.
Cancel(r) ==
  /\ r \in DOMAIN requests
  /\ requests[r].convention = "v3"
  /\ ~requests[r].aborted
  /\ requests' = [requests EXCEPT ![r].aborted = TRUE]
  /\ UNCHANGED <<orchVars, rpcVars, idVars, tileVars>>

(***************************************************************************)
(* Initial state and specifications.                                       *)
(***************************************************************************)
Init ==
  /\ timingCallbacks = <<>>
  /\ pc = "idle"
  /\ request = NoTile
  /\ issued = [s \in Slots |-> NoTile]
  /\ status = [s \in Slots |-> "idle"]
  /\ completion = NoCompletion
  /\ timing = "unset"
  /\ invoked = <<>>
  /\ cursor = 0
  /\ outcome = NoCompletion
  /\ id = 0
  /\ callbacks = [k \in {} |-> 0]
  /\ calls = <<>>
  /\ toHost = EmptyBag
  /\ lastEvent = NoEvent
  /\ lookups = {}
  /\ handling = EmptyBag
  /\ toWorker = EmptyBag
  /\ replies = EmptyBag
  /\ used = {}
  /\ sources = <<>>
  /\ terrain = NoTerrain
  /\ combinedHeightTile = CombineNeighbors({})
  /\ slopeAngleTile = NoRaster
  /\ materialized = NoRaster
  /\ returned = NoReturn
  /\ requests = <<>>

NextOrch ==
  \/ \E kind \in ListenerKinds : OnTiming(kind)
  \/ \E url \in Urls : Start(url)
  \/ \E s \in Slots, result \in {"fulfilled", "rejected"} : FetchSettle(s, result)
  \/ Join
  \/ NotifyListener
  \/ FinallyDone

SpecOrch == Init /\ [][NextOrch]_vars

\* The continuation of a settled await and the steps of a running function
\* are taken by the event loop: Join, NotifyListener and FinallyDone happen
\* once they can. Nothing makes a fetch settle or a caller call.
SpecOrchFair ==
  /\ SpecOrch
  /\ WF_vars(Join)
  /\ WF_vars(NotifyListener)
  /\ WF_vars(FinallyDone)

NextRpc ==
  \/ \E url \in DataUrls : GetDataDirect(url)
  \/ \E i \in 1..MaxCalls, result \in {"ok", "bad status", "network error"} :
        DirectSettle(i, result)
  \/ \E url \in DataUrls : GetDataDelegated(url)
  \/ \E msg \in DOMAIN toWorker : WorkerReceive(msg)
  \/ \E msg \in DOMAIN replies : WorkerReceiveDuplicate(msg)
  \/ \E msg \in OtherWorkerMessages : WorkerReceiveOther(msg)
  \/ \E msg \in DOMAIN toHost : HostReceive(msg)
  \/ \E msg \in OtherHostMessages : HostReceiveOther(msg)
  \/ \E h \in DOMAIN handling, result \in {"fulfilled", "rejected"} : HostSettle(h, result)

SpecRpc == Init /\ [][NextRpc]_vars

\* Message passing between the contexts is reliable: a reply that was posted
\* is delivered to the listener of the requesting context.
SpecRpcFair ==
  SpecRpc /\ WF_vars(\E msg \in DOMAIN toWorker : WorkerReceive(msg))

NextIds == \E base \in BaseIds : Construct(base)

SpecIds == Init /\ [][NextIds]_vars

NextTile ==
  \/ /\ ~combinedHeightTile.defined
     /\ \E present \in PresentSets, field \in Fields, hole \in Holes :
           BuildHeightTile(present, field, hole)
  \/ \E pixelSize \in PixelSizes : FromHeightTile(pixelSize)
  \/ \E x \in Coords, y \in Coords : Get(x, y)
  \/ \E maxAngle \in MaxAngles : ToImageBuffer(maxAngle)
  \/ Materialize
  \/ \E x \in Coords, y \in Coords : GetMaterialized(x, y)

SpecTile == Init /\ [][NextTile]_vars

NextCompat ==
  \/ CallV4
  \/ \E kind \in CallbackKinds : CallV3(kind)
  \/ \E r \in 1..MaxRequests, result \in {"fulfilled", "rejected"} : V4Settle(r, result)
  \/ \E r \in 1..MaxRequests : ThenReaction(r)
  \/ \E r \in 1..MaxRequests : CatchReaction(r)
  \/ \E r \in 1..MaxRequests : Cancel(r)

SpecCompat == Init /\ [][NextCompat]_vars

(***************************************************************************)
(* Claims about the orchestrator (checked under SpecOrch).                 *)
(***************************************************************************)
CenterRequiredError == "Center tile is required but was not available"

\* TRUE while no timing listener has thrown in the current invocation.
NoListenerRaised == outcome.error # "timing callback error"

\* The timing emission never starts before every fetch has settled and the
\* try/catch blocks have completed (image buffer encoded, or error recorded).
TimingAfterWork ==
  (\E k \in DOMAIN invoked : invoked[k] > 0) =>
     (AllSettled(status) /\ completion.kind # "none" /\ timing # "unset")

\* C1: every invocation calls each registered timing listener exactly once, on
\* the success and on the failure path, and only after all fetch and compute
\* work of the invocation has concluded.
C1_EachListenerExactlyOnce ==
  /\ TimingAfterWork
  /\ pc = "done" => \A k \in DOMAIN invoked : invoked[k] = 1

\* What remains true of C1 in the code: a listener is never called twice nor
\* before the work has concluded, and all are called once unless one throws.
C1_AtMostOnceAndOnceUnlessRaised ==
  /\ TimingAfterWork
  /\ \A k \in DOMAIN invoked : invoked[k] <= 1
  /\ (pc = "done" /\ NoListenerRaised) => \A k \in DOMAIN invoked : invoked[k] = 1

\* C2: when a timing listener raises, the caller still observes the outcome of
\* the request itself (bytes plus cache metadata, or the original error).
C2_ListenerErrorKeepsOutcome ==
  pc = "done" => outcome = completion

\* C3: all nine fetches of the 3x3 block around (z, x, y) are issued and all
\* are awaited; failed neighbours never fail the request: whenever the centre
\* fetch succeeds the request succeeds, failed neighbours counting as absent.
C3_CenterSuccessIsSuccess ==
  /\ pc # "idle" =>
       \A s \in Slots : issued[s] = Offset(request, SlotDx(s), SlotDy(s))
  /\ pc \in {"finally", "done"} => AllSettled(status)
  /\ (pc = "done" /\ status[CenterSlot] = "fulfilled") =>
       /\ outcome.kind = "return"
       /\ outcome.bytes
       /\ outcome.present = {s \in Slots : status[s] = "fulfilled"}

\* What remains true of C3 in the code: the same, unless a listener throws.
C3_CenterSuccessUnlessRaised ==
  /\ pc \in {"finally", "done"} => AllSettled(status)
  /\ (pc \in {"finally", "done"} /\ status[CenterSlot] = "fulfilled") =>
       /\ completion.kind = "return"
       /\ completion.present = {s \in Slots : status[s] = "fulfilled"}
  /\ (pc = "done" /\ NoListenerRaised) => outcome = completion

\* C4: when the centre fetch fails the request is rejected whatever the
\* neighbours did: no bytes, no cache metadata, no neighbour data, and the
\* request's error reaches the caller.
C4_CenterFailureRejects ==
  (pc = "done" /\ status[CenterSlot] = "rejected") =>
     /\ outcome.kind = "throw"
     /\ ~outcome.bytes
     /\ outcome.cacheControl = "" /\ outcome.expiresIn = 0
     /\ outcome.present = {}
     /\ outcome.error = CenterRequiredError

\* What remains true of C4 in the code: the request is always rejected without
\* data; the error is the request's own unless a listener throws.
C4_CenterFailureRejectsSomeError ==
  (pc = "done" /\ status[CenterSlot] = "rejected") =>
     /\ outcome.kind = "throw"
     /\ ~outcome.bytes
     /\ outcome.cacheControl = "" /\ outcome.expiresIn = 0
     /\ outcome.present = {}
     /\ NoListenerRaised => outcome.error = CenterRequiredError

(***************************************************************************)
(* Claims about the RPC bridge (checked under SpecRpc).                    *)
(***************************************************************************)
DelegatedCalls == {i \in DOMAIN calls : calls[i].path = "delegated"}

\* The step runs the requesting side's listener on msg.
ListenerRuns(msg) ==
  WorkerReceive(msg) \/ WorkerReceiveDuplicate(msg) \/ WorkerReceiveOther(msg)

\* The step runs the responding side's listener on msg.
ResponderRuns(msg) == HostReceive(msg) \/ HostReceiveOther(msg)

\* The listener's effect on a message whose id names a pending resolver: that
\* resolver is called once with the payload and removed, nothing else changes.
ResolvesAndRemoves(msg) ==
  LET i == callbacks[msg.key] IN
  /\ calls'[i].resolverCalls = calls[i].resolverCalls + 1
  /\ calls'[i].state = "resolved" /\ calls'[i].value = msg.payload
  /\ \A j \in DOMAIN calls : j # i => calls'[j] = calls[j]
  /\ callbacks' = Delete(callbacks, msg.key)
  /\ ~lastEvent'.raised

\* The listener's effect on a message it ignores silently.
IgnoresSilently ==
  /\ \A j \in DOMAIN calls : calls'[j].resolverCalls = calls[j].resolverCalls
                             /\ calls'[j].state = calls[j].state
  /\ callbacks' = callbacks
  /\ ~lastEvent'.raised

\* C5: a message whose id matches a pending resolver calls that resolver with
\* the payload and removes it; a message whose id matches none (unknown id, or
\* a duplicate of an answered one) calls nothing, raises nothing and leaves
\* every pending resolver in place.
C5_ListenerResolvesOrIgnores ==
  [][\A msg \in DOMAIN replies \cup OtherWorkerMessages :
       (msg.hasData /\ ListenerRuns(msg)) =>
          IF msg.key \in DOMAIN callbacks THEN ResolvesAndRemoves(msg)
          ELSE IgnoresSilently]_vars

\* What remains true of C5 in the code: the same for every id that does not
\* name a property of Object.prototype.
C5_ListenerResolvesOrIgnoresOwnKeys ==
  [][\A msg \in DOMAIN replies \cup OtherWorkerMessages :
       (msg.hasData /\ ListenerRuns(msg)
          /\ msg.key # <<"__proto__">>) =>
          IF msg.key \in DOMAIN callbacks THEN ResolvesAndRemoves(msg)
          ELSE IgnoresSilently]_vars

\* C6: every delegated request gets a correlation id (namespace prefix plus
\* counter value) that no earlier request got, and the resolver of an id is
\* called at most once however many messages carrying the id are delivered.
C6_IdsUniqueResolvedAtMostOnce ==
  /\ \A i \in DelegatedCalls :
       /\ \E n \in 0..(id - 1) : calls[i].key = <<idPrefix>> \o NumberToString(n)
       /\ \A j \in DelegatedCalls : j < i => calls[j].key # calls[i].key
       /\ calls[i].resolverCalls <= 1
  /\ Cardinality({calls[i].key : i \in DelegatedCalls}) = Cardinality(DelegatedCalls)

\* Witness of C6: two requests with their ids, both answered, and the listener
\* has just run on a second message carrying an answered id.
C6_Witness ==
  /\ Cardinality(DelegatedCalls) >= 2
  /\ \A i \in DelegatedCalls : calls[i].resolverCalls = 1
  /\ lastEvent.duplicate

\* C7: with several delegated requests outstanding and replies delivered in
\* any order, each promise resolves at most once, never rejects, and resolves
\* with the payload of the reply that carries its own id: the result of its
\* own url.
C7_ResolvedWithOwnReply ==
  \A i \in DelegatedCalls :
     /\ calls[i].resolverCalls <= 1
     /\ calls[i].state # "rejected"
     /\ (calls[i].state = "resolved") = (calls[i].resolverCalls = 1)
     /\ calls[i].state = "resolved" =>
          /\ \E msg \in DOMAIN replies :
                msg.key = calls[i].key /\ msg.payload = calls[i].value
          /\ calls[i].value.data = <<"blob", "bytes">> \o calls[i].url

\* Witness of C7: three delegated requests were outstanding at once and the
\* third was answered first, with its own payload, the replies to the first
\* two (for a different url) still being in flight.
C7_Witness ==
  /\ Len(calls) >= 3
  /\ {1, 2, 3} \subseteq DelegatedCalls
  /\ calls[3].state = "resolved"
  /\ calls[3].value.data = <<"blob", "bytes">> \o calls[3].url
  /\ calls[1].url # calls[3].url
  /\ \A i \in {1, 2} :
       /\ calls[i].state = "pending"
       /\ \E msg \in DOMAIN toWorker : msg.key = calls[i].key

\* The claim's condition on a request: its id is a string in the namespace.
InNamespace(msg) ==
  /\ msg.hasData
  /\ msg.typ = "string"
  /\ Len(msg.key) >= 1
  /\ msg.key[1] = "maplibre-contours-get-data-"

\* C8: the responder handles a message only if its id is a string with the
\* namespace prefix: any other message causes no protocol lookup and no reply;
\* when the protocol of a handled message returns a result, exactly one reply
\* is posted, with the request's id and that result (its data as a Blob).
\* (First conjunct: a step leaves lookups, handling and replies alone, or it is
\* no run of the responder on a message outside the namespace.)
C8_ResponderFiltersAndRepliesOnce ==
  [][/\ \/ /\ lookups' = lookups /\ handling' = handling
           /\ replies' = replies /\ toWorker' = toWorker
        \/ \A msg \in DOMAIN toHost \cup OtherHostMessages :
              InNamespace(msg) \/ ~ResponderRuns(msg)
     /\ \A msg \in DOMAIN toHost \cup OtherHostMessages :
          (InNamespace(msg) /\ ResponderRuns(msg)) =>
             /\ lookups' = lookups \cup {msg.key}
             /\ replies' = replies /\ toWorker' = toWorker
     /\ \A h \in DOMAIN handling :
          HostSettle(h, "fulfilled") =>
             \E reply \in DOMAIN replies' :
                /\ reply.hasData /\ reply.typ = "string" /\ reply.key = h.key
                /\ reply.payload.data = <<"blob">> \o ProtocolResult(h.url).data
                /\ reply.payload.cacheControl = ProtocolResult(h.url).cacheControl
                /\ replies' = BagAdd(replies, reply)
                /\ toWorker' = BagAdd(toWorker, reply)
     /\ \A h \in DOMAIN handling :
          HostSettle(h, "rejected") => replies' = replies /\ toWorker' = toWorker
    ]_vars

\* Witness of C8: the request with the first id was handled and its single
\* reply posted.
C8_Witness ==
  \E reply \in DOMAIN replies :
     /\ reply.key = <<idPrefix, "0">>
     /\ replies[reply] = 1
     /\ reply.payload.data = <<"blob", "bytes">> \o calls[1].url

\* The counter and the pending map change as a delegated send changes them.
InsertOnSend ==
  /\ id' = id + 1
  /\ Len(calls') = Len(calls) + 1
  /\ calls'[Len(calls')].path = "delegated"
  /\ LET key == calls'[Len(calls')].key IN
       /\ key \notin DOMAIN callbacks
       /\ DOMAIN callbacks' = DOMAIN callbacks \cup {key}
       /\ \A k \in DOMAIN callbacks : callbacks'[k] = callbacks[k]

\* The counter and the pending map change as the delivery of a matching
\* response changes them.
DeleteOnResolve ==
  /\ id' = id
  /\ \E msg \in DOMAIN replies :
       /\ ListenerRuns(msg)
       /\ msg.key \in DOMAIN callbacks
       /\ DOMAIN callbacks' = DOMAIN callbacks \ {msg.key}
       /\ \A k \in DOMAIN callbacks' : callbacks'[k] = callbacks[k]

\* C9: the counter and the pending map change only by a delegated send (counter
\* plus one, one entry inserted) or by the delivery of a matching response (that
\* entry deleted); a getData call with an https:// url posts no message and
\* leaves both unchanged.
C9_InsertOnSendDeleteOnResolve ==
  [][/\ (id' # id \/ callbacks' # callbacks) => (InsertOnSend \/ DeleteOnResolve)
     /\ (Len(calls') = Len(calls) + 1
           /\ StartsWith(calls'[Len(calls')].url, "https://")) =>
          /\ calls'[Len(calls')].path = "direct"
          /\ id' = id /\ callbacks' = callbacks /\ toHost' = toHost
    ]_vars

\* Witness of C9: a direct call, a delegated call still pending and a
\* delegated call already answered.
C9_Witness ==
  /\ \E i \in DOMAIN calls : calls[i].path = "direct"
  /\ id = 2
  /\ Cardinality(DOMAIN callbacks) = 1
  /\ \E i \in DelegatedCalls : calls[i].state = "resolved"

(***************************************************************************)
(* Claims about protocol-id registration (checked under SpecIds).          *)
(***************************************************************************)
\* The prefixes taken by the sources constructed before the j-th.
TakenBefore(j) == {sources[i].prefix : i \in 1..(j - 1)}

\* The earlier constructions with the same base id as the j-th.
SameBaseBefore(j) == {i \in 1..(j - 1) : sources[i].base = sources[j].base}

HasNumericSuffix(j) ==
  \E k \in 1..(MaxSources + 1) :
     sources[j].prefix = sources[j].base \o NumberToString(k)

AllDistinct ==
  \A i, j \in DOMAIN sources :
     i # j => sources[i].slopeProtocolId # sources[j].slopeProtocolId

\* C10 as stated: protocol ids are pairwise distinct, and of two constructions
\* with the same base id the first gets the base id and the second the base id
\* with a numeric suffix.
C10_FirstGetsBaseSecondSuffixed ==
  /\ AllDistinct
  /\ \A j \in DOMAIN sources :
       /\ SameBaseBefore(j) = {} => sources[j].prefix = sources[j].base
       /\ Cardinality(SameBaseBefore(j)) = 1 => HasNumericSuffix(j)

\* C10 as amended: protocol ids are pairwise distinct; a construction gets its
\* base id when no earlier source took that id, and the base id with a numeric
\* suffix otherwise; so the second construction of a base id is always
\* suffixed, the first one only when an earlier suffixed id equals the base.
C10_DistinctBaseIfFreeElseSuffixed ==
  /\ AllDistinct
  /\ used = {sources[i].prefix : i \in DOMAIN sources}
  /\ \A j \in DOMAIN sources :
       /\ sources[j].slopeProtocolId = sources[j].prefix \o <<"-slope">>
       /\ sources[j].base \notin TakenBefore(j) => sources[j].prefix = sources[j].base
       /\ sources[j].base \in TakenBefore(j) => HasNumericSuffix(j)
       /\ SameBaseBefore(j) # {} => HasNumericSuffix(j)

\* Witness of C10: base ids 'a', 'a', 'a1' gave 'a', 'a1', 'a11'.
C10_Witness ==
  /\ Len(sources) >= 3
  /\ sources[1].base = <<"a">> /\ sources[1].prefix = <<"a">>
  /\ sources[2].base = <<"a">> /\ sources[2].prefix = <<"a", "1">>
  /\ sources[3].base = <<"a", "1">> /\ sources[3].prefix = <<"a", "1", "1">>

(***************************************************************************)
(* Claims about the slope raster (checked under SpecTile).                 *)
(***************************************************************************)
InBounds(x, y) == x >= 0 /\ x < TileSize /\ y >= 0 /\ y < TileSize

Pixels == (0..(TileSize - 1)) \X (0..(TileSize - 1))

\* A raster exists: fromHeightTile has returned.
HasRaster == slopeAngleTile.kind = "lazy"

\* All nine grids, as combineNeighbors returns them.
AllPresent == CombineNeighbors(Slots)

\* Exactly one of the eight neighbour grids is absent, and the grids hold
\* finite elevations only.
OneNeighborMissing ==
  /\ combinedHeightTile.defined
  /\ Cardinality(Slots \ combinedHeightTile.grids) = 1
  /\ terrain.hole = NoHole

MissingSlot == CHOOSE s \in Slots : s \notin combinedHeightTile.grids

\* Pixel (x, y) lies on the edge, or is the corner, next to the grid of slot s.
Adjacent(s, x, y) ==
  /\ SlotDx(s) = -1 => x = 0
  /\ SlotDx(s) = 1 => x = TileSize - 1
  /\ SlotDy(s) = -1 => y = 0
  /\ SlotDy(s) = 1 => y = TileSize - 1

\* The slope at (x, y) had all eight neighbours been present.
FullSlope(x, y) ==
  SlopeGet(AllPresent, terrain, slopeAngleTile.pixelSize, x, y)

\* get(x, y) was called at a pixel of the tile and has returned.
GotPixel == returned.op = "get" /\ InBounds(returned.x, returned.y)

\* With one neighbour missing, the value get returned is NaN only next to it
\* and is the finite slope of the full block everywhere else.
OnlyItsEdgeIsNaN ==
  /\ IsNaN(returned.value) => Adjacent(MissingSlot, returned.x, returned.y)
  /\ ~Adjacent(MissingSlot, returned.x, returned.y) =>
       /\ returned.value.kind = "number"
       /\ returned.value = FullSlope(returned.x, returned.y)

\* C11 as stated: for grids of finite elevations with exactly one neighbour
\* absent, the slope get returns is NaN only at pixels on the edge (or corner)
\* next to the missing neighbour; every other pixel has the finite slope it
\* has with all eight neighbours present.
C11_MissingNeighborOnlyItsEdge ==
  (GotPixel /\ OneNeighborMissing) => OnlyItsEdgeIsNaN

\* C11 as amended: the same for a raster whose pixel size is not zero; the
\* pixels next to the missing neighbour are NaN for every pixel size.
C11_MissingNeighborOnlyItsEdgeNonZeroPixelSize ==
  (GotPixel /\ OneNeighborMissing) =>
     /\ slopeAngleTile.pixelSize # 0 => OnlyItsEdgeIsNaN
     /\ Adjacent(MissingSlot, returned.x, returned.y) => returned.value = NaN

\* Witness of C11: the northern grid is missing under a terrain whose slope
\* varies; get(1, 1) returned the finite slope of the full block and the
\* pixels of the top row are NaN.
C11_Witness ==
  /\ HasRaster /\ OneNeighborMissing
  /\ MissingSlot = 2
  /\ terrain.field = "bowl"
  /\ slopeAngleTile.pixelSize = 30
  /\ returned.op = "get" /\ returned.x = 1 /\ returned.y = 1
  /\ returned.value.kind = "number"
  /\ returned.value = FullSlope(1, 1)
  /\ \A x \in 0..(TileSize - 1) : LazyGet(x, 0) = NaN /\ FullSlope(x, 0) # NaN

\* The eight elevations around (x, y), as the raster reads them.
Surrounding(x, y) ==
  { CombinedGet(combinedHeightTile, terrain, x + d[1], y + d[2]) :
      d \in ((-1)..1) \X ((-1)..1) \ {<<0, 0>>} }

\* The slope at (x, y) when the centre grid has no data at pixel h, or has
\* data everywhere (h = NoHole).
SlopeWithHole(h, x, y) ==
  SlopeGet(combinedHeightTile, [terrain EXCEPT !.hole = h],
           slopeAngleTile.pixelSize, x, y)

\* Out of bounds get returns NaN; in bounds it returns the same value whether
\* or not the pixel itself has an elevation.
OutOfBoundsNaNCenterIgnored ==
  /\ ~InBounds(returned.x, returned.y) => returned.value = NaN
  /\ (InBounds(returned.x, returned.y) /\ terrain.hole = NoHole) =>
       returned.value =
         SlopeWithHole(<<returned.x, returned.y>>, returned.x, returned.y)
  /\ (InBounds(returned.x, returned.y)
        /\ terrain.hole = <<returned.x, returned.y>>) =>
       returned.value = SlopeWithHole(NoHole, returned.x, returned.y)

\* One of the eight elevations around the pixel get was called at is NaN.
SurroundingHasNaN == \E v \in Surrounding(returned.x, returned.y) : v.nan

\* C12 as stated: get(x, y) is NaN outside the tile; inside it is NaN if and
\* only if one of the eight surrounding elevations is NaN; the pixel's own
\* elevation never affects the result.
C12_NaNIffSurroundingNaN ==
  returned.op = "get" =>
     /\ OutOfBoundsNaNCenterIgnored
     /\ InBounds(returned.x, returned.y) =>
          (IsNaN(returned.value) <=> SurroundingHasNaN)

\* C12 as amended: a NaN among the eight surrounding elevations always gives
\* NaN; the converse holds for a pixel size that is not zero.
C12_NaNIffSurroundingNaNNonZeroPixelSize ==
  returned.op = "get" =>
     /\ OutOfBoundsNaNCenterIgnored
     /\ InBounds(returned.x, returned.y) =>
          /\ SurroundingHasNaN => returned.value = NaN
          /\ (slopeAngleTile.pixelSize # 0 /\ IsNaN(returned.value)) =>
               SurroundingHasNaN

\* Witness of C12: the centre grid has no data at (1, 1); get(1, 1) returned
\* a finite slope and the pixels around it are NaN.
C12_Witness ==
  /\ HasRaster
  /\ combinedHeightTile.grids = Slots
  /\ terrain.hole = <<1, 1>>
  /\ slopeAngleTile.pixelSize = 30
  /\ returned.op = "get" /\ returned.x = 1 /\ returned.y = 1
  /\ returned.value.kind = "number"
  /\ LazyGet(0, 0) = NaN /\ LazyGet(1, 0) = NaN

\* The four bytes of pixel (x, y) in a buffer.
PixelBytes(buffer, x, y) == SubSeq(buffer, (y * TileSize + x) * 4 + 1,
                                   (y * TileSize + x) * 4 + 4)

\* round(clamp(angle / maxAngle, 0, 1) * 255) where the quotient is a number.
ClampedGrey(angle, maxAngle) ==
  IF maxAngle.kind = "Infinity" THEN 0
  ELSE IF maxAngle.deg > 0
  THEN IF angle.tenk >= maxAngle.deg * 10000 THEN 255
       ELSE IF angle.tenk <= 0 THEN 0
       ELSE Round(255 * angle.tenk, maxAngle.deg * 10000)
  ELSE IF -angle.tenk >= -maxAngle.deg * 10000 THEN 255
       ELSE IF -angle.tenk <= 0 THEN 0
       ELSE Round(-255 * angle.tenk, -maxAngle.deg * 10000)

\* The quotient angle / maxAngle is a number: maxAngle is neither NaN nor 0.
QuotientDefined(maxAngle) ==
  maxAngle.kind = "Infinity" \/ (maxAngle.kind = "number" /\ maxAngle.deg # 0)

\* The buffer returned for maxAngle is the clamped grey encoding of the raster.
ClampedGreyBuffer(buffer, maxAngle) ==
  /\ Len(buffer) = TileSize * TileSize * 4
  /\ \A p \in Pixels :
       LET angle == LazyGet(p[1], p[2])
           px == PixelBytes(buffer, p[1], p[2])
       IN /\ px[1] = px[2] /\ px[2] = px[3]
          /\ px[1] \in 0..255
          /\ px[4] = IF IsNaN(angle) THEN 0 ELSE 255
          /\ IsNaN(angle) => px = <<0, 0, 0, 0>>
          /\ (~IsNaN(angle) /\ QuotientDefined(maxAngle)) =>
               px[1] = ClampedGrey(angle, maxAngle)
          /\ (~IsNaN(angle) /\ angle.tenk = 0) => px = <<0, 0, 0, 255>>
          /\ (~IsNaN(angle) /\ maxAngle.kind = "number" /\ maxAngle.deg > 0
                /\ angle.tenk >= maxAngle.deg * 10000) =>
               px = <<255, 255, 255, 255>>

\* C13: toImageBuffer(maxAngle) returns width*height*4 bytes in row-major
\* order with, for every pixel and every maxAngle a request can carry,
\* R = G = B = round(clamp(angle / maxAngle, 0, 1) * 255) in 0..255 and A = 0
\* for NaN, 255 otherwise; angle 0 gives (0,0,0,255), an angle of at least a
\* positive maxAngle (255,255,255,255) and NaN (0,0,0,0).
C13_BufferIsClampedGrey ==
  returned.op = "toImageBuffer" =>
     ClampedGreyBuffer(returned.buffer, returned.maxAngle)

\* What remains true of C13 in the code: the same for every maxAngle that is
\* not negative.
C13_BufferIsClampedGreyUnlessNegative ==
  (returned.op = "toImageBuffer"
     /\ ~(returned.maxAngle.kind = "number" /\ returned.maxAngle.deg < 0)) =>
     ClampedGreyBuffer(returned.buffer, returned.maxAngle)

\* The raster of materialize() has the size of the raster it was made from.
SameSize ==
  /\ materialized.width = slopeAngleTile.width
  /\ materialized.height = slopeAngleTile.height
  /\ Len(materialized.data) = slopeAngleTile.width * slopeAngleTile.height

MaterializedGet(x, y) == DenseGet(materialized.data, materialized.width, x, y)

\* get(x, y) of the materialized raster was called at a pixel of the tile and
\* has returned.
GotMaterializedPixel ==
  returned.op = "getMaterialized" /\ InBounds(returned.x, returned.y)

\* C14 as stated: at every in-bounds coordinate the raster of materialize()
\* gives the same value as the lazy raster, NaN included, and it has the same
\* width and height.
C14_MaterializedEqualsLazyInBounds ==
  GotMaterializedPixel =>
     /\ SameSize
     /\ returned.value = LazyGet(returned.x, returned.y)

\* C14 as amended: at every in-bounds coordinate the raster of materialize()
\* gives the lazy value rounded to the nearest 32-bit float: NaN where the
\* lazy value is NaN, else a number that is the lazy value to 1/10000 degree
\* and has no significand bit below those a 32-bit float holds; so the two
\* agree exactly where the lazy value is NaN or a 32-bit float.
C14_MaterializedEqualsLazyToFloat32 ==
  GotMaterializedPixel =>
     LET dense == returned.value
         lazy == LazyGet(returned.x, returned.y)
     IN /\ SameSize
        /\ dense.kind = lazy.kind
        /\ dense.tenk = lazy.tenk
        /\ dense.low = 0
        /\ (IsNaN(lazy) \/ lazy.low = 0) => dense = lazy

\* Witness of C14: over a terrain whose slope changes from column to column,
\* with a grid to the west missing, get(1, 0) of the materialized raster
\* returned a number that is not the lazy value, while pixel (0, 0) is NaN in
\* both.
C14_Witness ==
  /\ materialized.kind = "dense"
  /\ terrain.field = "bowl"
  /\ returned.op = "getMaterialized" /\ returned.x = 1 /\ returned.y = 0
  /\ returned.value.kind = "number"
  /\ returned.value # LazyGet(1, 0)
  /\ returned.value.tenk = LazyGet(1, 0).tenk
  /\ IsNaN(LazyGet(0, 0)) /\ MaterializedGet(0, 0) = NaN

\* C15: the raster of materialize() gives the same value as the lazy raster
\* at every coordinate that can be queried, also outside the tile, where the
\* lazy raster gives NaN.
C15_MaterializedEqualsLazyEverywhere ==
  materialized.kind = "dense" =>
     \A x \in Coords, y \in Coords : MaterializedGet(x, y) = LazyGet(x, y)

\* What remains true of C15 in the code: outside the tile the materialized
\* raster gives undefined above and below it, and the value of the pixel that
\* precedes or follows in row-major order to its left and right.
C15_OutsideIsUndefinedOrAnotherPixel ==
  materialized.kind = "dense" =>
     \A x \in Coords, y \in Coords :
        ~InBounds(x, y) =>
           LET idx == y * TileSize + x
           IN IF idx < 0 \/ idx >= TileSize * TileSize
              THEN MaterializedGet(x, y) = Undefined
              ELSE MaterializedGet(x, y) =
                     MaterializedGet(idx % TileSize, idx \div TileSize)

(***************************************************************************)
(* Claims about completion of a request (checked under SpecOrchFair).      *)
(***************************************************************************)
\* All nine fetch promises are fulfilled or rejected.
NineSettled == \A s \in Slots : status[s] \in {"fulfilled", "rejected"}

\* The request has completed: the caller's promise is settled.
Completed == pc = "done" /\ outcome.kind \in {"return", "throw"}

\* The timing observation was emitted: timing is set and the forEach of the
\* finally block has called the first listener, if there is one.
TimingEmitted ==
  /\ timing \in {"finish", "error"}
  /\ DOMAIN invoked # {} => invoked[1] >= 1

\* While a fetch is pending the request has neither completed nor computed
\* anything, the centre fetch having failed or not.
NothingBeforeAllSettled ==
  (pc # "idle" /\ ~NineSettled) =>
     /\ pc = "awaiting"
     /\ outcome.kind = "none"
     /\ completion.kind = "none"
     /\ timing = "unset"
     /\ invoked = <<>>

\* C16: a request completes (returns bytes or raises) only after all nine
\* fetches have settled, also when the centre fetch has already failed; and
\* once all nine have settled, the request eventually completes and the timing
\* observation is eventually emitted.
C16_CompletesOnlyAndEventuallyAfterAllSettled ==
  /\ []NothingBeforeAllSettled
  /\ (pc = "awaiting" /\ NineSettled) ~> (Completed /\ TimingEmitted)

\* Witness of C16: the centre fetch has failed, a neighbour fetch is still
\* pending, and the request is still waiting.
C16_Witness ==
  /\ pc = "awaiting"
  /\ status[CenterSlot] = "rejected"
  /\ \E s \in Slots : status[s] = "pending"
  /\ \E s \in Slots : status[s] = "fulfilled"
  /\ Len(timingCallbacks) >= 1

(***************************************************************************)
(* Claims about pending requests (checked under SpecRpc and SpecRpcFair).  *)
(***************************************************************************)
\* The resolver of call i is registered under the call's correlation id.
Registered(i) ==
  calls[i].key \in DOMAIN callbacks /\ callbacks[calls[i].key] = i

\* Messages that carry the correlation id key, by where they are.
RequestInFlight(key) == \E msg \in DOMAIN toHost : msg.key = key
ReplyInFlight(key) == \E msg \in DOMAIN toWorker : msg.key = key
ReplyPosted(key) == \E msg \in DOMAIN replies : msg.key = key

\* C17: getData posts the request before it stores the resolver, yet no
\* response can be lost: whenever the requesting context can receive a
\* message, every correlation id sent and not yet answered has its resolver
\* in the pending map, so a reply in flight always finds it.
C17_SentUnansweredHasResolver ==
  \A i \in DelegatedCalls :
     /\ calls[i].resolverCalls = 0 => (Registered(i) /\ calls[i].state = "pending")
     /\ (RequestInFlight(calls[i].key) \/ ReplyInFlight(calls[i].key)) =>
          Registered(i)

\* Witness of C17: the reply to the first request is in flight while the
\* second request has not reached the responder; both resolvers are stored.
C17_Witness ==
  /\ {1, 2} \subseteq DelegatedCalls
  /\ ReplyInFlight(calls[1].key) /\ Registered(1)
  /\ RequestInFlight(calls[2].key) /\ Registered(2)

\* No protocol is registered for the url's scheme.
NoHandlerFor(url) == \A scheme \in RegisteredSchemes : ~StartsWith(url, scheme)

\* The responder is done with the request of this id and has posted nothing.
Abandoned(key) ==
  /\ key \in lookups
  /\ ~\E h \in DOMAIN handling : h.key = key
  /\ ~ReplyPosted(key)

\* A request is resolved only by a reply the responder posted for it, and it
\* is never rejected; without a reply it stays pending with its entry in the
\* pending map; a url without a handler never gets a reply.
ResolvedOnlyByReply ==
  \A i \in DelegatedCalls :
     /\ calls[i].state # "rejected"
     /\ calls[i].state = "resolved" => ReplyPosted(calls[i].key)
     /\ ~ReplyPosted(calls[i].key) => (calls[i].state = "pending" /\ Registered(i))
     /\ NoHandlerFor(calls[i].url) => ~ReplyPosted(calls[i].key)

\* A request the responder has abandoned (no handler, or the handler failed)
\* stays abandoned, pending and registered.
AbandonedForGood ==
  \A i \in DelegatedCalls :
     Abandoned(calls[i].key) =>
        /\ Abandoned(calls[i].key)'
        /\ calls'[i].state = "pending"
        /\ calls[i].key \in DOMAIN callbacks'

\* C18: a delegated request is resolved if and only if the responder's handler
\* for its url returns a result: the reply then posted is eventually delivered
\* and resolves it; when no handler is registered or the handler fails no
\* reply is posted, the promise is neither resolved nor rejected and its
\* pending entry is never removed.
C18_ResolvedIffHandlerReturns ==
  /\ []ResolvedOnlyByReply
  /\ [][AbandonedForGood]_vars
  /\ \A n \in 0..(MaxCalls - 1) :
        ReplyInFlight(EventId(n)) ~>
           (\E i \in DelegatedCalls :
               calls[i].key = EventId(n) /\ calls[i].state = "resolved")

\* Witness of C18: of three requests one was answered and resolved, one had
\* no handler for its url and one had a handler that failed; the last two are
\* abandoned, pending and registered.
C18_Witness ==
  /\ {1, 2, 3} \subseteq DelegatedCalls
  /\ \E i \in 1..3 : calls[i].state = "resolved" /\ ReplyPosted(calls[i].key)
  /\ \E i \in 1..3 : NoHandlerFor(calls[i].url) /\ Abandoned(calls[i].key)
                       /\ calls[i].state = "pending" /\ Registered(i)
  /\ \E i \in 1..3 : ~NoHandlerFor(calls[i].url) /\ Abandoned(calls[i].key)
                       /\ calls[i].state = "pending" /\ Registered(i)

(***************************************************************************)
(* Claims about the legacy calling convention (checked under SpecCompat).  *)
(***************************************************************************)
LegacyRequests == {r \in DOMAIN requests : requests[r].convention = "v3"}

\* No call of the response callback carries both an error and data.
NeverErrorAndData ==
  \A r \in LegacyRequests :
     \A k \in DOMAIN requests[r].calls :
        LET args == requests[r].calls[k]
        IN IF args.error = "undefined"
           THEN args.data /\ args.cacheControl = "public, max-age=3600" /\ args.expires
           ELSE ~args.data /\ args.cacheControl = "undefined" /\ ~args.expires

\* The callback is called only once the request has settled, first with the
\* outcome of the request.
FirstCallIsOutcome ==
  \A r \in LegacyRequests :
     /\ requests[r].v4 = "pending" => requests[r].calls = <<>>
     /\ requests[r].then # "pending" => Len(requests[r].calls) >= 1
     /\ requests[r].calls # <<>> =>
          requests[r].calls[1] =
             IF requests[r].v4 = "fulfilled" THEN DataArgs ELSE ErrorArgs("request")

\* cancel() aborts the controller the request was started with.
CancelAborts ==
  \A r \in LegacyRequests : Cancel(r) => requests'[r].aborted

\* C19: in the legacy convention the response callback is called exactly once
\* per request, with (undefined, data, cacheControl, expires) when the
\* request succeeds or with the error alone when it fails; never twice, never
\* with an error and data together; and cancel() aborts the request's signal.
C19_CallbackExactlyOnce ==
  /\ [](/\ NeverErrorAndData
        /\ FirstCallIsOutcome
        /\ \A r \in LegacyRequests : Len(requests[r].calls) <= 1)
  /\ [][CancelAborts]_vars

\* What remains true of C19 in the code: the same, except that a callback
\* which throws is called a second time, with its own exception.
C19_CallbackOnceUnlessItRaises ==
  /\ [](/\ NeverErrorAndData
        /\ FirstCallIsOutcome
        /\ \A r \in LegacyRequests :
             /\ Len(requests[r].calls) <= 2
             /\ Len(requests[r].calls) = 2 =>
                  /\ Raises(requests[r].callback, requests[r].calls[1])
                  /\ requests[r].calls[2] = ErrorArgs("callback")
             /\ (requests[r].catch # "pending"
                   /\ ~Raises(requests[r].callback, requests[r].calls[1])) =>
                  Len(requests[r].calls) = 1)
  /\ [][CancelAborts]_vars

====
